---- MODULE Spec2Model ----
(***************************************************************************)
(* AssetContract (asset-transfer-sbe, chaincode-typescript): assets kept   *)
(* in the world state, one key per asset, each key carrying a state-based  *)
(* endorsement policy (validation parameter) that names the owner's        *)
(* organization.                                                           *)
(*                                                                         *)
(* A transaction function is run against the world state through the      *)
(* stub (its calls are recorded in order); the peer then validates the     *)
(* writes against the policies stored for the written keys and applies     *)
(* them, all or none.                                                      *)
(***************************************************************************)
EXTENDS Integers, Sequences, FiniteSets, TLC

\* ----------------------------------------------------------------- bounds
MaxValue == 2

Values == {100 * i : i \in 1..MaxValue}
AssetIds == {"asset1", "asset2"}
Owners == {"Alice", "Bob"}
\* organizations that have clients and endorsing peers
Orgs == {"Org1MSP", "Org2MSP"}
\* strings that can be passed as newOwnerOrg: the last one is no organization
OrgIds == Orgs \cup {"NoSuchMSP"}

VARIABLES
    state,          \* world state: key -> value bytes (<<>> when the key is absent)
    policy,         \* world state metadata: key -> validation parameter ({} when none)
    deleteClearsPolicy, \* whether the peer drops a key's metadata when the key is deleted
    everCreated,    \* history: the ids for which a CreateAsset has committed
    last,           \* the last invocation: function, arguments, outcome, stub calls
    version,        \* world state: key -> version of its last committed write (0 when absent)
    pending         \* a transaction that was simulated and is not yet committed

vars == <<state, policy, deleteClearsPolicy, everCreated, last, version, pending>>

NoValue == <<>>
NoPolicy == {}

\* ------------------------------------------------------------ JS objects
\* A JS object is the sequence of its <<name, value>> properties, in insertion order.
NewAsset == <<>>

HasProp(obj, name) == \E i \in 1..Len(obj) : obj[i][1] = name

GetProp(obj, name) == obj[CHOOSE i \in 1..Len(obj) : obj[i][1] = name][2]

\* obj.name = val: an existing property keeps its place, a new one goes last
SetProp(obj, name, val) ==
    IF HasProp(obj, name)
    THEN [i \in 1..Len(obj) |-> IF obj[i][1] = name THEN <<name, val>> ELSE obj[i]]
    ELSE Append(obj, <<name, val>>)

\* Buffer.from(JSON.stringify(obj)): the text { name value name value ... }
RECURSIVE Members(_)
Members(obj) ==
    IF obj = <<>> THEN <<>>
    ELSE <<obj[1][1], obj[1][2]>> \o Members(Tail(obj))

Stringify(obj) == <<"{">> \o Members(obj) \o <<"}">>

\* JSON.parse throws a SyntaxError on a text that is no JSON value: the empty text
ParseThrows(text) == Len(text) < 2

\* JSON.parse(text): the object whose properties are the members of the text
Parse(text) ==
    [i \in 1..((Len(text) - 2) \div 2) |-> <<text[2 * i], text[2 * i + 1]>>]

\* ------------------------------------------------------------------ stub
\* One call on ctx.stub, as the transaction records it.
StubCall(fn, key, value, ep) == [fn |-> fn, key |-> key, value |-> value, ep |-> ep]

GetStateCall(key) == StubCall("getState", key, NoValue, NoPolicy)
PutStateCall(key, value) == StubCall("putState", key, value, NoPolicy)
DeleteStateCall(key) == StubCall("deleteState", key, NoValue, NoPolicy)
SetStateValidationParameterCall(key, ep) ==
    StubCall("setStateValidationParameter", key, NoValue, ep)

\* ctx.stub.getState(key): the committed value, an empty buffer for an absent key
getState(st, key) == [defined |-> TRUE, bytes |-> st[key]]

\* ----------------------------------------------------- KeyEndorsementPolicy
\* ep.addOrgs("MEMBER", ...ownerOrgs); ep.getPolicy()
KeyEndorsementPolicy(role, ownerOrgs) ==
    {[org |-> ownerOrgs[i], role |-> role] : i \in 1..Len(ownerOrgs)}

PolicyOrgs(ep) == {p.org : p \in ep}

\* Faulty variant of setAssetStateBasedEndorsement: the policy is also set on
\* another asset's key.
setAssetStateBasedEndorsementTwoKeys(assetId, ownerOrgs) ==
    <<SetStateValidationParameterCall(assetId, KeyEndorsementPolicy("MEMBER", ownerOrgs)),
      SetStateValidationParameterCall(CHOOSE k \in AssetIds : k # assetId,
                                      KeyEndorsementPolicy("MEMBER", ownerOrgs))>>

setAssetStateBasedEndorsement(assetId, ownerOrgs) ==
    <<SetStateValidationParameterCall(assetId, KeyEndorsementPolicy("MEMBER", ownerOrgs))>>

\* ctx.clientIdentity.getMSPID()
getClientOrgId(caller) == caller

\* -------------------------------------------------------------- contract
\* Each transaction function, run on the world state st: its result ("ok" or
\* the error thrown), its return value and the stub calls it made, in order.
Outcome(result, retBool, retText, calls) ==
    [result |-> result, retBool |-> retBool, retText |-> retText, calls |-> calls]

\* Faulty variant of the existence test: the length of the buffer is not looked at.
AssetExistsOfDefinedOnly(buffer) == buffer.defined

AssetExistsOf(buffer) == buffer.defined /\ Len(buffer.bytes) > 0

AssetExists(st, assetId) ==
    LET buffer == getState(st, assetId)
    IN  Outcome("ok", AssetExistsOf(buffer), NoValue, <<GetStateCall(assetId)>>)

\* Faulty variant of CreateAsset: OwnerOrg is taken from the owner argument.
CreateAssetOwnerAsOrg(st, caller, assetId, value, owner) ==
    LET exists == AssetExists(st, assetId)
        ownerOrg == getClientOrgId(caller)
        asset == SetProp(SetProp(SetProp(SetProp(NewAsset,
                     "ID", assetId), "Value", value), "Owner", owner), "OwnerOrg", owner)
        buffer == Stringify(asset)
    IN  IF exists.retBool
        THEN Outcome("AlreadyExists", FALSE, NoValue, exists.calls)
        ELSE Outcome("ok", FALSE, NoValue,
                     exists.calls
                     \o <<PutStateCall(assetId, buffer)>>
                     \o setAssetStateBasedEndorsement(GetProp(asset, "ID"), <<ownerOrg>>))

\* Faulty variant of CreateAsset: no existence check, an existing asset is overwritten.
CreateAssetOverwrites(st, caller, assetId, value, owner) ==
    LET exists == AssetExists(st, assetId)
        ownerOrg == getClientOrgId(caller)
        asset == SetProp(SetProp(SetProp(SetProp(NewAsset,
                     "ID", assetId), "Value", value), "Owner", owner), "OwnerOrg", ownerOrg)
        buffer == Stringify(asset)
    IN  Outcome("ok", FALSE, NoValue,
                exists.calls
                \o <<PutStateCall(assetId, buffer)>>
                \o setAssetStateBasedEndorsement(GetProp(asset, "ID"), <<ownerOrg>>))

\* CreateAsset creates a new asset and sets the endorsement policy of its key
CreateAsset(st, caller, assetId, value, owner) ==
    LET exists == AssetExists(st, assetId)
        ownerOrg == getClientOrgId(caller)
        asset == SetProp(SetProp(SetProp(SetProp(NewAsset,
                     "ID", assetId), "Value", value), "Owner", owner), "OwnerOrg", ownerOrg)
        buffer == Stringify(asset)
    IN  IF exists.retBool
        THEN Outcome("AlreadyExists", FALSE, NoValue, exists.calls)
        ELSE Outcome("ok", FALSE, NoValue,
                     exists.calls
                     \o <<PutStateCall(assetId, buffer)>>
                     \o setAssetStateBasedEndorsement(GetProp(asset, "ID"), <<ownerOrg>>))

\* Faulty variant of ReadAsset: the value read is written back to the key.
ReadAssetWritesBack(st, assetId) ==
    LET exists == AssetExists(st, assetId)
        assetJSON == getState(st, assetId)
    IN  IF ~exists.retBool
        THEN Outcome("NotFound", FALSE, NoValue, exists.calls)
        ELSE Outcome("ok", FALSE, assetJSON.bytes,
                     exists.calls \o <<GetStateCall(assetId)>>
                     \o <<PutStateCall(assetId, assetJSON.bytes)>>)

\* ReadAsset returns the asset with the given assetId
ReadAsset(st, assetId) ==
    LET exists == AssetExists(st, assetId)
        assetJSON == getState(st, assetId)
    IN  IF ~exists.retBool
        THEN Outcome("NotFound", FALSE, NoValue, exists.calls)
        ELSE Outcome("ok", FALSE, assetJSON.bytes,
                     exists.calls \o <<GetStateCall(assetId)>>)

\* Faulty variant of UpdateAsset: the new value is assigned to a property "value".
UpdateAssetWrongProperty(st, assetId, newValue) ==
    LET read == ReadAsset(st, assetId)
        asset == SetProp(Parse(read.retText), "value", newValue)
        buffer == Stringify(asset)
    IN  IF read.result # "ok"
        THEN Outcome(read.result, FALSE, NoValue, read.calls)
        ELSE IF ParseThrows(read.retText)
        THEN Outcome("SyntaxError", FALSE, NoValue, read.calls)
        ELSE Outcome("ok", FALSE, NoValue,
                     read.calls \o <<PutStateCall(assetId, buffer)>>)

\* Faulty variant of UpdateAsset: the ID property is overwritten too, with another
\* asset's id.
UpdateAssetChangesId(st, assetId, newValue) ==
    LET read == ReadAsset(st, assetId)
        asset == SetProp(SetProp(Parse(read.retText), "Value", newValue),
                         "ID", CHOOSE k \in AssetIds : k # assetId)
    IN  IF read.result # "ok"
        THEN Outcome(read.result, FALSE, NoValue, read.calls)
        ELSE IF ParseThrows(read.retText)
        THEN Outcome("SyntaxError", FALSE, NoValue, read.calls)
        ELSE Outcome("ok", FALSE, NoValue,
                     read.calls \o <<PutStateCall(assetId, Stringify(asset))>>)

\* Faulty variant of UpdateAsset: the record is taken from a copy the service
\* kept, not read through the stub, so the transaction has no read set.
UpdateAssetFromCache(st, assetId, newValue) ==
    LET read == ReadAsset(st, assetId)
        asset == SetProp(Parse(read.retText), "Value", newValue)
    IN  IF read.result # "ok"
        THEN Outcome(read.result, FALSE, NoValue, <<>>)
        ELSE IF ParseThrows(read.retText)
        THEN Outcome("SyntaxError", FALSE, NoValue, <<>>)
        ELSE Outcome("ok", FALSE, NoValue, <<PutStateCall(assetId, Stringify(asset))>>)

\* Faulty variant of UpdateAsset: an asset that does not exist is made, with the
\* id and the new value.
UpdateAssetUpserts(st, assetId, newValue) ==
    LET exists == AssetExists(st, assetId)
        read == getState(st, assetId)
        asset == IF exists.retBool
                 THEN SetProp(Parse(read.bytes), "Value", newValue)
                 ELSE SetProp(SetProp(NewAsset, "ID", assetId), "Value", newValue)
    IN  Outcome("ok", FALSE, NoValue,
                exists.calls \o <<GetStateCall(assetId)>>
                \o <<PutStateCall(assetId, Stringify(asset))>>)

\* UpdateAsset updates the Value of an existing asset
UpdateAsset(st, assetId, newValue) ==
    LET read == ReadAsset(st, assetId)
        asset == SetProp(Parse(read.retText), "Value", newValue)
        buffer == Stringify(asset)
    IN  IF read.result # "ok"
        THEN Outcome(read.result, FALSE, NoValue, read.calls)
        ELSE IF ParseThrows(read.retText)
        THEN Outcome("SyntaxError", FALSE, NoValue, read.calls)
        ELSE Outcome("ok", FALSE, NoValue,
                     read.calls \o <<PutStateCall(assetId, buffer)>>)

\* Faulty variant of DeleteAsset: no existence check.
DeleteAssetNoExistsCheck(st, assetId) ==
    LET exists == AssetExists(st, assetId)
    IN  Outcome("ok", FALSE, NoValue, exists.calls \o <<DeleteStateCall(assetId)>>)

\* Faulty variant of DeleteAsset: deleteState is not called.
DeleteAssetKeepsRecord(st, assetId) ==
    LET exists == AssetExists(st, assetId)
    IN  IF ~exists.retBool
        THEN Outcome("NotFound", FALSE, NoValue, exists.calls)
        ELSE Outcome("ok", FALSE, NoValue, exists.calls)

\* Variant of DeleteAsset that also writes the key's policy, with no organization.
DeleteAssetResetsPolicy(st, assetId) ==
    LET exists == AssetExists(st, assetId)
    IN  IF ~exists.retBool
        THEN Outcome("NotFound", FALSE, NoValue, exists.calls)
        ELSE Outcome("ok", FALSE, NoValue,
                     exists.calls
                     \o <<DeleteStateCall(assetId)>>
                     \o setAssetStateBasedEndorsement(assetId, <<>>))

\* DeleteAsset deletes a given asset
DeleteAsset(st, assetId) ==
    LET exists == AssetExists(st, assetId)
    IN  IF ~exists.retBool
        THEN Outcome("NotFound", FALSE, NoValue, exists.calls)
        ELSE Outcome("ok", FALSE, NoValue,
                     exists.calls \o <<DeleteStateCall(assetId)>>)

\* Faulty variant of TransferAsset: the endorsement policy is not re-set.
TransferAssetKeepsPolicy(st, assetId, newOwner, newOwnerOrg) ==
    LET read == ReadAsset(st, assetId)
        asset == SetProp(SetProp(Parse(read.retText),
                     "Owner", newOwner), "OwnerOrg", newOwnerOrg)
    IN  IF read.result # "ok"
        THEN Outcome(read.result, FALSE, NoValue, read.calls)
        ELSE IF ParseThrows(read.retText)
        THEN Outcome("SyntaxError", FALSE, NoValue, read.calls)
        ELSE Outcome("ok", FALSE, NoValue,
                     read.calls \o <<PutStateCall(assetId, Stringify(asset))>>)

\* Faulty variant of TransferAsset: the policy is built from the OwnerOrg read
\* from the ledger, not from newOwnerOrg.
TransferAssetOldOrgPolicy(st, assetId, newOwner, newOwnerOrg) ==
    LET read == ReadAsset(st, assetId)
        old == Parse(read.retText)
        asset == SetProp(SetProp(old, "Owner", newOwner), "OwnerOrg", newOwnerOrg)
    IN  IF read.result # "ok"
        THEN Outcome(read.result, FALSE, NoValue, read.calls)
        ELSE IF ParseThrows(read.retText)
        THEN Outcome("SyntaxError", FALSE, NoValue, read.calls)
        ELSE Outcome("ok", FALSE, NoValue,
                     read.calls
                     \o <<PutStateCall(assetId, Stringify(asset))>>
                     \o setAssetStateBasedEndorsement(GetProp(asset, "ID"),
                                                       <<GetProp(old, "OwnerOrg")>>))

\* Variant of TransferAsset that enforces "OwnerOrg must be a valid Org MSP Id":
\* an organization that is not known is refused.
TransferAssetChecksOrg(st, assetId, newOwner, newOwnerOrg) ==
    LET read == ReadAsset(st, assetId)
        asset == SetProp(SetProp(Parse(read.retText),
                     "Owner", newOwner), "OwnerOrg", newOwnerOrg)
    IN  IF read.result # "ok"
        THEN Outcome(read.result, FALSE, NoValue, read.calls)
        ELSE IF ParseThrows(read.retText)
        THEN Outcome("SyntaxError", FALSE, NoValue, read.calls)
        ELSE IF newOwnerOrg \notin Orgs
        THEN Outcome("UnknownOrg", FALSE, NoValue, read.calls)
        ELSE Outcome("ok", FALSE, NoValue,
                     read.calls
                     \o <<PutStateCall(assetId, Stringify(asset))>>
                     \o setAssetStateBasedEndorsement(GetProp(asset, "ID"), <<newOwnerOrg>>))

\* Faulty variant of TransferAsset: the new organization is added to the policy
\* next to the previous owner organization.
TransferAssetAddsOrg(st, assetId, newOwner, newOwnerOrg) ==
    LET read == ReadAsset(st, assetId)
        old == Parse(read.retText)
        asset == SetProp(SetProp(old, "Owner", newOwner), "OwnerOrg", newOwnerOrg)
    IN  IF read.result # "ok"
        THEN Outcome(read.result, FALSE, NoValue, read.calls)
        ELSE IF ParseThrows(read.retText)
        THEN Outcome("SyntaxError", FALSE, NoValue, read.calls)
        ELSE Outcome("ok", FALSE, NoValue,
                     read.calls
                     \o <<PutStateCall(assetId, Stringify(asset))>>
                     \o setAssetStateBasedEndorsement(GetProp(asset, "ID"),
                                                       <<GetProp(old, "OwnerOrg"), newOwnerOrg>>))

\* TransferAsset updates Owner and OwnerOrg and re-sets the endorsement policy
TransferAsset(st, assetId, newOwner, newOwnerOrg) ==
    LET read == ReadAsset(st, assetId)
        asset == SetProp(SetProp(Parse(read.retText),
                     "Owner", newOwner), "OwnerOrg", newOwnerOrg)
    IN  IF read.result # "ok"
        THEN Outcome(read.result, FALSE, NoValue, read.calls)
        ELSE IF ParseThrows(read.retText)
        THEN Outcome("SyntaxError", FALSE, NoValue, read.calls)
        ELSE Outcome("ok", FALSE, NoValue,
                     read.calls
                     \o <<PutStateCall(assetId, Stringify(asset))>>
                     \o setAssetStateBasedEndorsement(GetProp(asset, "ID"), <<newOwnerOrg>>))

\* ------------------------------------------------------------------ peer
\* The calls of a transaction that write: its write set, in order.
IsWrite(call) == call.fn \in {"putState", "deleteState", "setStateValidationParameter"}

WrittenKeys(calls) == {calls[i].key : i \in {j \in 1..Len(calls) : IsWrite(calls[j])}}

\* A key's policy is satisfied by the endorsement of a peer of one of its organizations.
PolicySatisfiedBy(ep, org) == org \in PolicyOrgs(ep)

\* "current owner Org Peer is required to endorse future updates": every written
\* key that has a policy has it satisfied by the endorsing organization.
Endorsed(pol, calls, org) ==
    \A k \in WrittenKeys(calls) : pol[k] = NoPolicy \/ PolicySatisfiedBy(pol[k], org)

\* A transaction is committed when its function did not throw and its writes
\* are endorsed as the stored policies require.
Validates(pol, org, out) == out.result = "ok" /\ Endorsed(pol, out.calls, org)

\* The effect of one stub call on the ledger ws = [state, policy].
ApplyCall(ws, call, clears) ==
    CASE call.fn = "putState" ->
            [ws EXCEPT !.state[call.key] = call.value]
      [] call.fn = "deleteState" ->
            [ws EXCEPT !.state[call.key] = NoValue,
                       !.policy[call.key] = IF clears THEN NoPolicy ELSE @]
      [] call.fn = "setStateValidationParameter" ->
            [ws EXCEPT !.policy[call.key] = call.ep]
      [] OTHER -> ws

RECURSIVE ApplyCalls(_, _, _)
ApplyCalls(ws, calls, clears) ==
    IF calls = <<>> THEN ws
    ELSE ApplyCalls(ApplyCall(ws, Head(calls), clears), Tail(calls), clears)

\* ------------------------------------------------------- adapter failures
NoCall == StubCall("none", "", NoValue, NoPolicy)

\* Variant of Faulted with a clean-up: when the policy write throws, the data
\* write before it is undone with a deleteState.
FaultedUndoes(out, f) ==
    [result |-> "AdapterFailure", retBool |-> FALSE, retText |-> NoValue,
     calls |-> IF out.calls[f].fn = "setStateValidationParameter"
               THEN SubSeq(out.calls, 1, f - 1) \o <<DeleteStateCall(out.calls[f].key)>>
               ELSE SubSeq(out.calls, 1, f - 1),
     failed |-> out.calls[f]]

\* The run of a transaction function whose f-th stub call throws: every call is
\* awaited outside any try block, so the function ends there with the adapter's
\* error, having made the calls before it and nothing after.
Faulted(out, f) ==
    [result |-> "AdapterFailure", retBool |-> FALSE, retText |-> NoValue,
     calls |-> SubSeq(out.calls, 1, f - 1),
     failed |-> out.calls[f]]

FailedCall(out) == IF "failed" \in DOMAIN out THEN out.failed ELSE NoCall

\* ------------------------------------------------------------ invocations
Invocation(fn, caller, assetId, value, owner, ownerOrg, out, valid) ==
    [fn |-> fn, caller |-> caller, id |-> assetId, value |-> value, owner |-> owner,
     ownerOrg |-> ownerOrg, result |-> out.result, retBool |-> out.retBool,
     retText |-> out.retText, calls |-> out.calls, failed |-> FailedCall(out),
     valid |-> valid]

\* A simulated transaction: the invocation, its outcome, and its read set, the
\* keys it read through getState with the versions they had when it ran.
Proposal(fn, caller, assetId, value, owner, ownerOrg, out, reads) ==
    [fn |-> fn, caller |-> caller, id |-> assetId, value |-> value, owner |-> owner,
     ownerOrg |-> ownerOrg, out |-> out, reads |-> reads]

NoTx == Proposal("none", "", "", 0, "", "", Outcome("ok", FALSE, NoValue, <<>>), {})

ReadKeys(calls) == {calls[i].key : i \in {j \in 1..Len(calls) : calls[j].fn = "getState"}}

ReadSet(ver, calls) == {<<k, ver[k]>> : k \in ReadKeys(calls)}

\* The peer commits a transaction only when every key it read still has the
\* version it read.
ReadsCurrent(ver, reads) == \A r \in reads : ver[r[1]] = r[2]

\* The version a committed write gives key k. Versions are only compared with
\* the versions in the read set of the transaction tx that is still waiting,
\* so a version is new when it differs from what tx read.
FreshVersion(tx, k) == IF <<k, 1>> \in tx.reads THEN 2 ELSE 1

\* The commit of a transaction: when valid, its writes are applied together and
\* every written key gets a new version; otherwise the ledger is left as it was.
\* tx is the transaction that is still waiting after this commit.
Commit(fn, caller, assetId, value, owner, ownerOrg, out, valid, tx) ==
    LET ws == ApplyCalls([state |-> state, policy |-> policy], out.calls,
                         deleteClearsPolicy)
    IN  /\ state' = IF valid THEN ws.state ELSE state
        /\ policy' = IF valid THEN ws.policy ELSE policy
        /\ version' = [k \in AssetIds |->
                          IF valid /\ k \in WrittenKeys(out.calls)
                          THEN IF ws.state[k] = NoValue THEN 0 ELSE FreshVersion(tx, k)
                          ELSE version[k]]
        /\ everCreated' = IF valid /\ fn = "CreateAsset"
                          THEN everCreated \cup {assetId} ELSE everCreated
        /\ last' = Invocation(fn, caller, assetId, value, owner, ownerOrg, out, valid)
        /\ UNCHANGED deleteClearsPolicy

\* One invocation by a client of organization caller, endorsed by that
\* organization's peer: the function runs, and when it did not throw its writes
\* are validated against the stored policies and committed together. A
\* transaction whose function threw commits nothing.
Invoke(fn, caller, assetId, value, owner, ownerOrg, out) ==
    /\ Commit(fn, caller, assetId, value, owner, ownerOrg, out,
              Validates(policy, caller, out), pending)
    /\ UNCHANGED pending

InvokeCreateAsset ==
    \E caller \in Orgs, assetId \in AssetIds, value \in Values, owner \in Owners :
        Invoke("CreateAsset", caller, assetId, value, owner, "",
               CreateAsset(state, caller, assetId, value, owner))

InvokeReadAsset ==
    \E caller \in Orgs, assetId \in AssetIds :
        Invoke("ReadAsset", caller, assetId, 0, "", "", ReadAsset(state, assetId))

InvokeUpdateAsset ==
    \E caller \in Orgs, assetId \in AssetIds, newValue \in Values :
        Invoke("UpdateAsset", caller, assetId, newValue, "", "",
               UpdateAsset(state, assetId, newValue))

InvokeDeleteAsset ==
    \E caller \in Orgs, assetId \in AssetIds :
        Invoke("DeleteAsset", caller, assetId, 0, "", "", DeleteAsset(state, assetId))

InvokeTransferAsset ==
    \E caller \in Orgs, assetId \in AssetIds, newOwner \in Owners, newOwnerOrg \in OrgIds :
        Invoke("TransferAsset", caller, assetId, 0, newOwner, newOwnerOrg,
               TransferAsset(state, assetId, newOwner, newOwnerOrg))

InvokeAssetExists ==
    \E caller \in Orgs, assetId \in AssetIds :
        Invoke("AssetExists", caller, assetId, 0, "", "", AssetExists(state, assetId))

Init ==
    /\ state = [k \in AssetIds |-> NoValue]
    /\ policy = [k \in AssetIds |-> NoPolicy]
    /\ deleteClearsPolicy \in BOOLEAN
    /\ everCreated = {}
    /\ last = Invocation("none", "", "", 0, "", "",
                         Outcome("ok", FALSE, NoValue, <<>>), FALSE)
    /\ version = [k \in AssetIds |-> 0]
    /\ pending = NoTx

Next ==
    \/ InvokeCreateAsset
    \/ InvokeReadAsset
    \/ InvokeUpdateAsset
    \/ InvokeDeleteAsset
    \/ InvokeTransferAsset
    \/ InvokeAssetExists

Spec == Init /\ [][Next]_vars

\* ------------------------------------------- invocations with adapter errors
\* The same invocations with one ledger write (putState, deleteState or
\* setStateValidationParameter) that throws. The functions touch one key each, so
\* the invocations with errors are followed on one asset.
FaultIds == {"asset1"}

WriteCalls(out) == {f \in 1..Len(out.calls) : IsWrite(out.calls[f])}

FaultyCreateAsset ==
    \E caller \in Orgs, assetId \in FaultIds, value \in Values, owner \in Owners :
        LET out == CreateAsset(state, caller, assetId, value, owner)
        IN  \E f \in WriteCalls(out) :
                Invoke("CreateAsset", caller, assetId, value, owner, "", Faulted(out, f))

FaultyUpdateAsset ==
    \E caller \in Orgs, assetId \in FaultIds, newValue \in Values :
        LET out == UpdateAsset(state, assetId, newValue)
        IN  \E f \in WriteCalls(out) :
                Invoke("UpdateAsset", caller, assetId, newValue, "", "", Faulted(out, f))

FaultyDeleteAsset ==
    \E caller \in Orgs, assetId \in FaultIds :
        LET out == DeleteAsset(state, assetId)
        IN  \E f \in WriteCalls(out) :
                Invoke("DeleteAsset", caller, assetId, 0, "", "", Faulted(out, f))

FaultyTransferAsset ==
    \E caller \in Orgs, assetId \in FaultIds, newOwner \in Owners, newOwnerOrg \in OrgIds :
        LET out == TransferAsset(state, assetId, newOwner, newOwnerOrg)
        IN  \E f \in WriteCalls(out) :
                Invoke("TransferAsset", caller, assetId, 0, newOwner, newOwnerOrg,
                       Faulted(out, f))

NextFault ==
    \/ (Next /\ last'.id \in FaultIds)
    \/ FaultyCreateAsset
    \/ FaultyUpdateAsset
    \/ FaultyDeleteAsset
    \/ FaultyTransferAsset

SpecFault == Init /\ [][NextFault]_vars

\* ------------------------------------------------- concurrent invocations
\* A transaction is simulated on the ledger as it is when the client submits it
\* and committed later; invocations that commit in between overlap it. Only a
\* simulation that did not throw is sent on to be committed. The functions
\* touch one key each, so the overlapping invocations are followed on one asset.
ConcIds == {"asset1"}

Propose(fn, caller, assetId, value, owner, ownerOrg, out) ==
    /\ pending = NoTx
    /\ out.result = "ok"
    /\ pending' = Proposal(fn, caller, assetId, value, owner, ownerOrg, out,
                           ReadSet(version, out.calls))
    /\ UNCHANGED <<state, policy, deleteClearsPolicy, everCreated, last, version>>

ProposeCreateAsset ==
    \E caller \in Orgs, assetId \in ConcIds, value \in Values, owner \in Owners :
        Propose("CreateAsset", caller, assetId, value, owner, "",
                CreateAsset(state, caller, assetId, value, owner))

ProposeUpdateAsset ==
    \E caller \in Orgs, assetId \in ConcIds, newValue \in Values :
        Propose("UpdateAsset", caller, assetId, newValue, "", "",
                UpdateAsset(state, assetId, newValue))

ProposeDeleteAsset ==
    \E caller \in Orgs, assetId \in ConcIds :
        Propose("DeleteAsset", caller, assetId, 0, "", "", DeleteAsset(state, assetId))

ProposeTransferAsset ==
    \E caller \in Orgs, assetId \in ConcIds, newOwner \in Owners, newOwnerOrg \in Orgs :
        Propose("TransferAsset", caller, assetId, 0, newOwner, newOwnerOrg,
                TransferAsset(state, assetId, newOwner, newOwnerOrg))

\* The waiting transaction reaches the peer: it is committed when its read set
\* is current and its writes are endorsed, and aborted otherwise.
CommitPending ==
    /\ pending # NoTx
    /\ Commit(pending.fn, pending.caller, pending.id, pending.value, pending.owner,
              pending.ownerOrg, pending.out,
              /\ ReadsCurrent(version, pending.reads)
              /\ Validates(policy, pending.caller, pending.out),
              NoTx)
    /\ pending' = NoTx

\* The invocations that can change what a waiting transaction read: those that
\* commit a write to the asset. Transfers are between the known organizations.
Overlapping(inv) ==
    /\ inv.id \in ConcIds
    /\ inv.valid
    /\ WrittenKeys(inv.calls) # {}
    /\ inv.fn = "TransferAsset" => inv.ownerOrg \in Orgs

NextConc ==
    \/ (Next /\ Overlapping(last'))
    \/ ProposeCreateAsset
    \/ ProposeUpdateAsset
    \/ ProposeDeleteAsset
    \/ ProposeTransferAsset
    \/ CommitPending

SpecConc == Init /\ [][NextConc]_vars

\* ---------------------------------------------------------- observations
\* The record stored under key k, and one of its fields.
Present(st, k) == st[k] # NoValue
Record(st, k) == Parse(st[k])
Field(st, k, name) == GetProp(Record(st, k), name)

Mutations == {"UpdateAsset", "DeleteAsset", "TransferAsset"}

\* The mutations of key k a client could submit next.
MutationsOf(st, k) ==
    {UpdateAsset(st, k, v) : v \in Values}
    \cup {DeleteAsset(st, k)}
    \cup {TransferAsset(st, k, o, g) : o \in Owners, g \in OrgIds}

\* ------------------------------------------------------------------ claims

\* C1: in every reachable state, each key that holds a record has a policy that
\* names exactly the one organization in the record's OwnerOrg.
C1_PolicyNamesOwnerOrg ==
    \A k \in AssetIds :
        Present(state, k) => PolicyOrgs(policy[k]) = {Field(state, k, "OwnerOrg")}

\* C1 witness: a transfer to another organization has committed.
C1_Witness ==
    /\ last.fn = "TransferAsset" /\ last.valid
    /\ last.ownerOrg # last.caller
    /\ Present(state, last.id)
    /\ PolicyOrgs(policy[last.id]) = {last.ownerOrg}

\* C2: a mutation (UpdateAsset, DeleteAsset, TransferAsset) of a present asset is
\* committed only when the caller's organization is the asset's OwnerOrg at that
\* time; and once a TransferAsset to org2 has committed, every mutation of the
\* asset validates for org2 and none validates for the previous owner organization
\* (when that is another organization than org2).
C2_OnlyOwnerOrgCommits ==
    [][ /\ (last'.fn \in Mutations /\ last'.valid)
            => /\ Present(state, last'.id)
               /\ last'.caller = Field(state, last'.id, "OwnerOrg")
        /\ (last'.fn = "TransferAsset" /\ last'.valid)
            => LET k == last'.id
                   previous == Field(state, k, "OwnerOrg")
                   org2 == last'.ownerOrg
               IN  \A m \in MutationsOf(state', k) :
                      /\ Validates(policy', org2, m)
                      /\ previous # org2 => ~Validates(policy', previous, m)
      ]_vars

\* C2 witness: a mutation of a present asset by a client of Org1MSP, which is not
\* the asset's owner organization, ran without error and was not committed.
C2_Witness ==
    /\ last.fn \in Mutations /\ last.result = "ok" /\ ~last.valid
    /\ Present(state, last.id)
    /\ last.caller # Field(state, last.id, "OwnerOrg")
    /\ last.caller = "Org1MSP"
    /\ last.id \in everCreated

\* C3: a committed TransferAsset(id, o2, org2) leaves a record with Owner = o2 and
\* OwnerOrg = org2 and the ID and Value it had, and a policy that is exactly {org2}.
C3_TransferEffect ==
    [][ (last'.fn = "TransferAsset" /\ last'.valid)
        => LET k == last'.id
           IN  /\ Present(state', k)
               /\ Field(state', k, "Owner") = last'.owner
               /\ Field(state', k, "OwnerOrg") = last'.ownerOrg
               /\ Field(state', k, "ID") = Field(state, k, "ID")
               /\ Field(state', k, "Value") = Field(state, k, "Value")
               /\ Len(Record(state', k)) = 4
               /\ PolicyOrgs(policy'[k]) = {last'.ownerOrg}
               /\ Field(state, k, "OwnerOrg") # last'.ownerOrg
                     => Field(state, k, "OwnerOrg") \notin PolicyOrgs(policy'[k])
      ]_vars

\* C3 witness: a committed transfer changed both the owner and the organization.
C3_Witness ==
    /\ last.fn = "TransferAsset" /\ last.valid
    /\ last.owner = "Bob" /\ last.ownerOrg = "Org2MSP" /\ last.caller = "Org1MSP"
    /\ Field(state, last.id, "Owner") = "Bob"
    /\ Field(state, last.id, "Value") = 200

\* C4: a committed CreateAsset(id, value, owner) by a client of callerOrg leaves
\* AssetExists(id) true, the record {ID: id, Value: value, Owner: owner, OwnerOrg:
\* callerOrg} and the policy {callerOrg}; AssetExists is false for every id for
\* which no CreateAsset has committed.
C4_CreateEffect ==
    /\ (last.fn = "CreateAsset" /\ last.valid)
        => /\ AssetExists(state, last.id).retBool
           /\ Record(state, last.id) = << <<"ID", last.id>>, <<"Value", last.value>>,
                                          <<"Owner", last.owner>>, <<"OwnerOrg", last.caller>> >>
           /\ PolicyOrgs(policy[last.id]) = {last.caller}
    /\ \A k \in AssetIds \ everCreated : ~AssetExists(state, k).retBool

\* C4 witness: one asset has just been created while the other id never was.
C4_Witness ==
    /\ last.fn = "CreateAsset" /\ last.valid
    /\ AssetIds \ everCreated # {}
    /\ last.caller = "Org2MSP"

\* C5: CreateAsset on an id that holds a record throws AlreadyExists, whoever the
\* caller and whatever the arguments, and record and policy stay as they were.
C5_CreateExistingFails ==
    [][ (last'.fn = "CreateAsset" /\ Present(state, last'.id))
        => /\ last'.result = "AlreadyExists"
           /\ ~last'.valid
           /\ WrittenKeys(last'.calls) = {}
           /\ state' = state
           /\ policy' = policy
      ]_vars

\* C5 witness: another organization tried to create an existing asset with other
\* arguments.
C5_Witness ==
    /\ last.fn = "CreateAsset" /\ last.result = "AlreadyExists"
    /\ Present(state, last.id)
    /\ last.caller # Field(state, last.id, "OwnerOrg")
    /\ last.value # Field(state, last.id, "Value")
    /\ last.owner # Field(state, last.id, "Owner")

\* C6: ReadAsset, UpdateAsset, DeleteAsset and TransferAsset on an id that holds no
\* record throw NotFound and write nothing: all records and policies stay.
C6_AbsentFailsNotFound ==
    [][ (last'.fn \in Mutations \cup {"ReadAsset"} /\ ~Present(state, last'.id))
        => /\ last'.result = "NotFound"
           /\ ~last'.valid
           /\ WrittenKeys(last'.calls) = {}
           /\ state' = state
           /\ policy' = policy
      ]_vars

\* C6 witness: a transfer of an asset that was deleted before failed, while the
\* other asset is there.
C6_Witness ==
    /\ last.fn = "TransferAsset" /\ last.result = "NotFound"
    /\ last.id \in everCreated
    /\ \E k \in AssetIds \ {last.id} : Present(state, k)

\* C7: a committed UpdateAsset(id, v) leaves a record with Value = v and the ID,
\* Owner and OwnerOrg it had, and leaves the policy of the key as it was.
C7_UpdateEffect ==
    [][ (last'.fn = "UpdateAsset" /\ last'.valid)
        => LET k == last'.id
           IN  /\ Present(state', k)
               /\ Field(state', k, "Value") = last'.value
               /\ Field(state', k, "ID") = Field(state, k, "ID")
               /\ Field(state', k, "Owner") = Field(state, k, "Owner")
               /\ Field(state', k, "OwnerOrg") = Field(state, k, "OwnerOrg")
               /\ Len(Record(state', k)) = 4
               /\ policy'[k] = policy[k]
      ]_vars

\* C7 witness: an update to 200 of an asset owned by Bob of Org2MSP has committed.
C7_Witness ==
    /\ last.fn = "UpdateAsset" /\ last.valid /\ last.value = 200
    /\ Field(state, last.id, "Value") = 200
    /\ Field(state, last.id, "Owner") = "Bob"
    /\ Field(state, last.id, "OwnerOrg") = "Org2MSP"

\* C8: a committed DeleteAsset(id) leaves AssetExists(id) false; and as long as no
\* CreateAsset(id) commits, the id stays without record and ReadAsset(id) throws
\* NotFound.
C8_DeletedStaysNotFound ==
    [][ /\ (last'.fn = "DeleteAsset" /\ last'.valid)
            => ~AssetExists(state', last'.id).retBool
        /\ \A k \in AssetIds :
              ~Present(state, k)
              => /\ (last'.fn = "ReadAsset" /\ last'.id = k)
                        => last'.result = "NotFound"
                 /\ Present(state', k)
                        => (last'.fn = "CreateAsset" /\ last'.id = k /\ last'.valid)
      ]_vars

\* C8 witness: ReadAsset of an asset that was created and deleted threw NotFound.
C8_Witness ==
    /\ last.fn = "ReadAsset" /\ last.result = "NotFound"
    /\ last.id \in everCreated
    /\ ~AssetExists(state, last.id).retBool

RECURSIVE LastPut(_, _)
LastPut(calls, k) ==
    IF calls = <<>> THEN NoValue
    ELSE LET c == calls[Len(calls)]
         IN  IF c.fn = "putState" /\ c.key = k THEN c.value
             ELSE LastPut(SubSeq(calls, 1, Len(calls) - 1), k)

\* C11: ReadAsset of a present asset throws nothing, writes nothing and leaves all
\* records and policies; it returns the value stored under the id, which is the
\* value the last committed putState of the id stored, and a ReadAsset that
\* directly follows a ReadAsset of the same id returns the same text.
C11_ReadAssetPure ==
    [][ /\ (last'.fn = "ReadAsset" /\ Present(state, last'.id))
            => /\ last'.result = "ok"
               /\ last'.retText = state[last'.id]
               /\ WrittenKeys(last'.calls) = {}
               /\ state' = state
               /\ policy' = policy
               /\ (last.fn = "ReadAsset" /\ last.id = last'.id)
                     => last'.retText = last.retText
        /\ (last'.valid /\ LastPut(last'.calls, last'.id) # NoValue)
            => ReadAsset(state', last'.id).retText = LastPut(last'.calls, last'.id)
      ]_vars

\* C11 witness: a client of another organization than the owner's read a present
\* asset and got the stored text.
C11_Witness ==
    /\ last.fn = "ReadAsset" /\ last.result = "ok"
    /\ Present(state, last.id)
    /\ last.retText = state[last.id]
    /\ last.caller # Field(state, last.id, "OwnerOrg")

\* C12: per key, a step takes absent to present only as a committed CreateAsset of
\* the key, present to absent only as a committed DeleteAsset of the key, and
\* changes a present record only as a committed UpdateAsset or TransferAsset of
\* the key; and these committed invocations make exactly these transitions.
C12_KeyStateMachine ==
    [][ /\ \A k \in AssetIds :
              /\ (~Present(state, k) /\ Present(state', k))
                    => (last'.fn = "CreateAsset" /\ last'.id = k /\ last'.valid)
              /\ (Present(state, k) /\ ~Present(state', k))
                    => (last'.fn = "DeleteAsset" /\ last'.id = k /\ last'.valid)
              /\ (Present(state, k) /\ Present(state', k) /\ state'[k] # state[k])
                    => (last'.fn \in {"UpdateAsset", "TransferAsset"}
                        /\ last'.id = k /\ last'.valid)
        /\ (last'.fn = "CreateAsset" /\ last'.valid)
              => (~Present(state, last'.id) /\ Present(state', last'.id))
        /\ (last'.fn \in {"UpdateAsset", "TransferAsset"} /\ last'.valid)
              => (Present(state, last'.id) /\ Present(state', last'.id))
        /\ (last'.fn = "DeleteAsset" /\ last'.valid)
              => (Present(state, last'.id) /\ ~Present(state', last'.id))
      ]_vars

\* C12 witness: an asset that was created has been deleted, the other asset is
\* present.
C12_Witness ==
    /\ last.fn = "DeleteAsset" /\ last.valid
    /\ last.id \in everCreated /\ ~Present(state, last.id)
    /\ \E k \in AssetIds : Present(state, k)

\* One step with the policy write of C13: in CreateAsset and TransferAsset the
\* putState of the key comes before its setStateValidationParameter; and when that
\* policy write throws, the function ends with the adapter's error, nothing is
\* committed, and the writes it has made are the putState of the new record and
\* nothing else (no second policy write, no deleteState, no other putState), so
\* that with them the key holds the new record and the policy it had before,
\* which for TransferAsset names the old owner organization.
PolicyWriteFailure ==
    /\ (last'.fn \in {"CreateAsset", "TransferAsset"} /\ last'.result = "ok")
        => LET calls == last'.calls
           IN  /\ \E i, j \in 1..Len(calls) :
                     /\ i < j
                     /\ calls[i].fn = "putState" /\ calls[i].key = last'.id
                     /\ calls[j].fn = "setStateValidationParameter"
                     /\ calls[j].key = last'.id
               /\ \A j \in 1..Len(calls) :
                     calls[j].fn = "setStateValidationParameter"
                     => \E i \in 1..(j - 1) : calls[i].fn = "putState"
    /\ (last'.failed.fn = "setStateValidationParameter")
        => LET k == last'.id
               calls == last'.calls
               view == ApplyCalls([state |-> state, policy |-> policy], calls,
                                  deleteClearsPolicy)
           IN  /\ last'.fn \in {"CreateAsset", "TransferAsset"}
               /\ last'.result = "AdapterFailure" /\ ~last'.valid
               /\ state' = state /\ policy' = policy
               /\ last'.failed.key = k
               /\ WrittenKeys(calls) = {k}
               /\ Cardinality({i \in 1..Len(calls) : IsWrite(calls[i])}) = 1
               /\ calls[Len(calls)].fn = "putState"
               /\ view.state[k] = calls[Len(calls)].value
               /\ Present(view.state, k)
               /\ Field(view.state, k, "ID") = k
               /\ last'.fn = "CreateAsset"
                     => /\ Field(view.state, k, "OwnerOrg") = last'.caller
                        /\ Field(view.state, k, "Owner") = last'.owner
                        /\ Field(view.state, k, "Value") = last'.value
               /\ last'.fn = "TransferAsset"
                     => /\ Field(view.state, k, "OwnerOrg") = last'.ownerOrg
                        /\ Field(view.state, k, "Owner") = last'.owner
               /\ view.policy[k] = policy[k]
               /\ last'.fn = "TransferAsset"
                     => PolicyOrgs(view.policy[k]) = {Field(state, k, "OwnerOrg")}

C14_ConcurrentCommits ==
    [][ /\ \A k \in AssetIds :
              Present(state', k)
                  => PolicyOrgs(policy'[k]) = {Field(state', k, "OwnerOrg")}
        /\ (last'.valid /\ pending' \in {NoTx, pending})
            => /\ last'.fn = "UpdateAsset"
                    => /\ Present(state, last'.id) /\ Present(state', last'.id)
                       /\ Field(state', last'.id, "Owner") = Field(state, last'.id, "Owner")
                       /\ Field(state', last'.id, "OwnerOrg")
                             = Field(state, last'.id, "OwnerOrg")
               /\ last'.fn = "CreateAsset"
                    => ~Present(state, last'.id) /\ Present(state', last'.id)
      ]_vars

\* C14 witness: an UpdateAsset simulated while another organization owned the
\* asset reached the peer after a TransferAsset to the caller's organization had
\* committed; it was endorsed by the organization the policy now names and was
\* aborted, and the record keeps the OwnerOrg of the transfer.
C14_Witness ==
    /\ pending = NoTx
    /\ last.fn = "UpdateAsset" /\ last.result = "ok" /\ ~last.valid
    /\ Present(state, last.id)
    /\ last.caller = Field(state, last.id, "OwnerOrg")
    /\ LastPut(last.calls, last.id) # NoValue
    /\ GetProp(Parse(LastPut(last.calls, last.id)), "OwnerOrg") # last.caller

\* C15: every record stored under a key k has ID = k, in every reachable state:
\* a committed CreateAsset stores the record with the id of the call, and every
\* later committed operation leaves the ID of a record that stays; so the calls
\* of a TransferAsset that did not throw (read, record write, policy write under
\* the record's ID) are all on the key of the call.
C15_IdIsKey ==
    [][ /\ \A k \in AssetIds :
              /\ Present(state', k) => Field(state', k, "ID") = k
              /\ (Present(state, k) /\ Present(state', k))
                    => Field(state', k, "ID") = Field(state, k, "ID")
        /\ (last'.fn = "CreateAsset" /\ last'.valid)
              => Field(state', last'.id, "ID") = last'.id
        /\ (last'.fn = "TransferAsset" /\ last'.result = "ok")
              => /\ \A i \in 1..Len(last'.calls) : last'.calls[i].key = last'.id
                 /\ \E i \in 1..Len(last'.calls) :
                        last'.calls[i].fn = "setStateValidationParameter"
      ]_vars

\* C15 witness: after an update, a transfer of the asset has committed; its policy
\* write is on the key that holds the record, whose ID is that key.
C15_Witness ==
    /\ last.fn = "TransferAsset" /\ last.valid
    /\ Present(state, last.id)
    /\ Field(state, last.id, "ID") = last.id
    /\ Field(state, last.id, "Value") # 100
    /\ last.id \in WrittenKeys(last.calls)
    /\ policy[last.id] = KeyEndorsementPolicy("MEMBER", <<last.ownerOrg>>)

C17_OtherKeysUnchanged ==
    [][ /\ \A i \in 1..Len(last'.calls) : last'.calls[i].key = last'.id
        /\ \A k \in AssetIds \ {last'.id} :
              state'[k] = state[k] /\ policy'[k] = policy[k]
      ]_vars

\* C17 witness: a transfer of one asset has committed while the other asset is
\* held by another organization, with its own policy.
C17_Witness ==
    /\ last.fn = "TransferAsset" /\ last.valid
    /\ \E k \in AssetIds \ {last.id} :
          /\ Present(state, k)
          /\ Field(state, k, "OwnerOrg") # last.ownerOrg
          /\ PolicyOrgs(policy[k]) = {Field(state, k, "OwnerOrg")}
          /\ policy[k] # policy[last.id]

====
